---- MODULE Spec2Model ----
(***************************************************************************)
(* A model of the provider-management layer of nsm:                        *)
(*   configuration.py  ProviderConfig, Configuration (load, save, ...)     *)
(*   nsm.py            BaseManager, ProviderCommands (add, use, list,      *)
(*                     remove, remove_all)                                 *)
(* The state is the configuration file on disk, the Configuration object   *)
(* of the running process, the live adapter (current_client) of the        *)
(* ProviderCommands object, and the outcome of the last command.           *)
(*   nsm.py            the provider-scoped commands behind require_provider *)
(*   bitwarden_client.py, passbolt_client.py, google_secrets_manager.py    *)
(*                     the adapters' secret operations on a backend        *)
(***************************************************************************)
EXTENDS Naturals, FiniteSets, Sequences, TLC

VARIABLES
    file,            \* the configuration file at conf_file
    config,          \* self.config of the running process
    current_client,  \* self.current_client of the ProviderCommands object
    pc,              \* "none": no process yet, "live": manager constructed,
                     \* "dead": the process ended in sys.exit(1) or an exception
    last,            \* the last command run and how it ended
    effects,         \* what the last step did outside the configuration: adapter
                     \* constructors and backend calls, in the step and since
                     \* the process started
    writing,         \* the command whose save is under way, with its result
    backend,         \* the secrets and projects the backend of an adapter holds
    outcome,         \* the last adapter operation and what it returned
    race,            \* two invocations running at once on the same file: each
                     \* one's position and configuration, and the saves so far
    project          \* the project directory: .nsm.yaml, the resources of its
                     \* Passbolt folder, and the last project secret add

vars == <<file, config, current_client, pc, last, effects, writing, backend, outcome,
         race, project>>

adapterVars == <<backend, outcome>>

(***************************************************************************)
(* Bounds and input sets                                                   *)
(***************************************************************************)
NumNames == 2

NamePool == <<"work", "", "home", "lab">>

Names == {NamePool[i] : i \in 1..NumNames}

\* Python's None, and JSON's null as json.dump writes it
None == "None"

JNull == "null"

ProviderTypes == {"bitwarden", "google", "passbolt"}

\* what a user may pass as the provider argument of add
ProviderArgs == ProviderTypes \cup {"aws"}

Fields ==
    {"type", "org", "project_id", "server", "private_key_file",
     "organization_root_folder"}

Server == "https://pb"

KeyFile == "key.asc"

RootFolder == "root"

EmptyFcn == [k \in {} |-> None]

\* Python truthiness of an Optional[str]
Falsy(v) == v = None \/ v = ""

(***************************************************************************)
(* configuration.py                                                        *)
(***************************************************************************)
ProviderConfig(type, org, project_id, server, private_key_file, organization_root_folder) ==
    [type |-> type, org |-> org, project_id |-> project_id, server |-> server,
     private_key_file |-> private_key_file,
     organization_root_folder |-> organization_root_folder]

\* Configuration(): the dataclass defaults
EmptyConfiguration == [providers |-> EmptyFcn, current_provider |-> None]
\* ToJson written as "v or None": the empty string becomes null too
ToJsonFalsy(v) == IF v = None \/ v = "" THEN JNull ELSE v

\* json.dump of an Optional[str], and json.load of a string or null
ToJson(v) == IF v = None THEN JNull ELSE v

FromJson(j) == IF j = JNull THEN None ELSE j

\* the file before it is ever written
AbsentFile == [exists |-> FALSE, kind |-> "none", doc |-> EmptyFcn, mode |-> "none"]

\* the dict Configuration.save builds: vars(config) of every provider, all six
\* fields, and current_provider
SaveDocument(cfg) ==
    [providers |->
        [n \in DOMAIN cfg.providers |->
            [f \in Fields |-> ToJson(cfg.providers[n][f])]],
     current_provider |-> ToJson(cfg.current_provider)]

\* open(file_path, "w") and json.dump: the file holds the whole document; a
\* file that is created gets the default mode, an existing one keeps its mode
save(cfg, f) ==
    [exists |-> TRUE, kind |-> "object", doc |-> SaveDocument(cfg),
     mode |-> IF f.exists THEN f.mode ELSE "0644"]

\* ProviderConfig(**config): type is required, no unknown keyword is accepted
ProviderEntryOk(obj) == "type" \in DOMAIN obj /\ DOMAIN obj \subseteq Fields

\* ProviderConfig(**config): fields left out take the default None
ParseProvider(obj) ==
    [f \in Fields |-> IF f \in DOMAIN obj THEN FromJson(obj[f]) ELSE None]

LoadError == [ok |-> FALSE, config |-> EmptyConfiguration]

\* Configuration.load: ok = FALSE stands for the exception it raises
load(f) ==
    IF ~f.exists THEN [ok |-> TRUE, config |-> EmptyConfiguration]
    ELSE IF f.kind # "object" THEN LoadError
    ELSE LET data == f.doc
             provs == IF "providers" \in DOMAIN data THEN data.providers ELSE EmptyFcn
         IN  IF \E n \in DOMAIN provs : ~ProviderEntryOk(provs[n]) THEN LoadError
             ELSE IF ~(DOMAIN data \subseteq {"providers", "current_provider"})
                  THEN LoadError
             ELSE [ok |-> TRUE,
                   config |->
                     [providers |-> [n \in DOMAIN provs |-> ParseProvider(provs[n])],
                      current_provider |->
                         IF "current_provider" \in DOMAIN data
                         THEN FromJson(data.current_provider) ELSE None]]

\* Configuration.add_provider: self.providers[name] = ProviderConfig(...)
add_provider(cfg, name, pcfg) ==
    [cfg EXCEPT !.providers =
        [n \in DOMAIN cfg.providers \cup {name} |->
            IF n = name THEN pcfg ELSE cfg.providers[n]]]

\* Configuration.get_current_provider returns a ProviderConfig and not None
HasCurrentProvider(cfg) ==
    ~Falsy(cfg.current_provider) /\ cfg.current_provider \in DOMAIN cfg.providers

get_current_provider(cfg) == cfg.providers[cfg.current_provider]

\* Configuration.remove_all_providers
remove_all_providers(cfg) == [providers |-> EmptyFcn, current_provider |-> None]

(***************************************************************************)
(* nsm.py: BaseManager                                                     *)
(***************************************************************************)
NoClient == [cls |-> "None", arg |-> None]

\* a manager that leaves the mode as the write made it
keep_permissions(f) == f

\* BaseManager._set_restrictive_permissions
set_restrictive_permissions(f) ==
    IF f.exists THEN [f EXCEPT !.mode = "0600"] ELSE f

\* BaseManager._initialize_client. gcloud tells whether GoogleSecretsManager()
\* finds the gcloud CLI and a default project; when it does not, the
\* constructor raises and current_client is not assigned.
initialize_client(cfg, client, gcloud) ==
    IF ~HasCurrentProvider(cfg) THEN [raised |-> FALSE, client |-> client]
    ELSE LET p == get_current_provider(cfg)
         IN  CASE p.type = "bitwarden" ->
                    [raised |-> FALSE,
                     client |-> [cls |-> "BitwardenClient", arg |-> cfg.current_provider]]
               [] p.type = "google" ->
                    IF gcloud
                    THEN [raised |-> FALSE,
                          client |-> [cls |-> "GoogleSecretsManager", arg |-> None]]
                    ELSE [raised |-> TRUE, client |-> client]
               [] p.type = "passbolt" ->
                    [raised |-> FALSE,
                     client |-> [cls |-> "PassboltClient",
                                 arg |-> p.organization_root_folder]]
               [] OTHER -> [raised |-> FALSE, client |-> client]

Result(status, cfg, f, client) ==
    [status |-> status, config |-> cfg, file |-> f, client |-> client]

\* BaseManager.__init__ of NillebCoSecretsManager (config loaded from the file),
\* then NillebCoSecretsManager.provider(): ProviderCommands(config=self.config),
\* whose __init__ builds its own adapter
construct(f, gcloud1, gcloud2) ==
    LET ld == load(f)
        f1 == set_restrictive_permissions(f)
        top == initialize_client(ld.config, NoClient, gcloud1)
        sub == initialize_client(ld.config, NoClient, gcloud2)
    IN  IF ~ld.ok THEN Result("raised", EmptyConfiguration, f, NoClient)
        ELSE IF top.raised \/ sub.raised
             THEN Result("raised", EmptyConfiguration, f1, NoClient)
        ELSE Result("ok", ld.config, f1, sub.client)

(***************************************************************************)
(* nsm.py: ProviderCommands. Each operator is one command run on the live  *)
(* ProviderCommands object and yields the status it ends with ("ok",       *)
(* "exit1" for sys.exit(1), "raised" for an uncaught exception) and the    *)
(* configuration, file and adapter it leaves.                              *)
(***************************************************************************)
\* ExistingGoogle with the type misspelt: it never finds a google provider
ExistingGoogleTypo(cfg) == {n \in DOMAIN cfg.providers : cfg.providers[n].type = "Google"}

\* existing_google in ProviderCommands.add: the names of the google providers
ExistingGoogle(cfg) == {n \in DOMAIN cfg.providers : cfg.providers[n].type = "google"}

\* the entry ProviderCommands.add hands to Configuration.add_provider
AddedEntry(name, provider, server, private_key_file, organization_root_folder) ==
    CASE provider = "bitwarden" -> ProviderConfig(provider, name, None, None, None, None)
      [] provider = "google" -> ProviderConfig(provider, None, None, None, None, None)
      [] OTHER -> ProviderConfig(provider, None, None, server, private_key_file,
                                 organization_root_folder)
\* FinishAdd that forgets to make the first provider current
FinishAddNoCurrent(cfg, f, client, name) ==
    [status |-> "ok", config |-> cfg,
     file |-> set_restrictive_permissions(save(cfg, f)), client |-> client]

\* the tail of add: first provider becomes current, save, chmod
FinishAdd(cfg, f, client, name) ==
    LET cfg1 == IF Falsy(cfg.current_provider)
                THEN [cfg EXCEPT !.current_provider = name] ELSE cfg
    IN  Result("ok", cfg1, set_restrictive_permissions(save(cfg1, f)), client)

\* ProviderCommands.add. a.passphrase: a non-empty passphrase comes from the
\* environment or the prompt; a.configure: how "passbolt configure" ends
\* ("ok", "failed": CalledProcessError, "missing": no passbolt executable,
\* FileNotFoundError, which add does not catch)
add(cfg, f, client, a) ==
    IF a.provider \notin ProviderTypes THEN Result("exit1", cfg, f, client)
    ELSE IF a.provider = "google" /\ ExistingGoogle(cfg) # {}
         THEN Result("exit1", cfg, f, client)
    ELSE IF a.provider = "passbolt" /\ (Falsy(a.server) \/ Falsy(a.private_key_file))
         THEN Result("exit1", cfg, f, client)
    ELSE IF a.provider = "passbolt" /\ ~a.passphrase
         THEN Result("exit1", cfg, f, client)
    ELSE IF a.provider = "passbolt" /\ a.configure = "failed"
         THEN Result("exit1", cfg, f, client)
    ELSE IF a.provider = "passbolt" /\ a.configure = "missing"
         THEN Result("raised", cfg, f, client)
    ELSE FinishAdd(
            add_provider(cfg, a.name,
                AddedEntry(a.name, a.provider, a.server, a.private_key_file,
                           a.organization_root_folder)),
            f, client, a.name)
\* use that switches and saves before it looks the name up
useAssignFirst(cfg, f, client, name, gcloud) ==
    LET cfg1 == [cfg EXCEPT !.current_provider = name]
        f1 == set_restrictive_permissions(save(cfg1, f))
    IN  IF name \notin DOMAIN cfg.providers
        THEN [status |-> "exit1", config |-> cfg1, file |-> f1, client |-> client]
        ELSE [status |-> "ok", config |-> cfg1, file |-> f1, client |-> client]

\* ProviderCommands.use
use(cfg, f, client, name, gcloud) ==
    IF name \notin DOMAIN cfg.providers THEN Result("exit1", cfg, f, client)
    ELSE LET cfg1 == [cfg EXCEPT !.current_provider = name]
             f1 == set_restrictive_permissions(save(cfg1, f))
             ic == initialize_client(cfg1, client, gcloud)
         IN  Result(IF ic.raised THEN "raised" ELSE "ok", cfg1, f1, ic.client)
\* remove that leaves current_provider alone
removeKeepCurrent(cfg, f, client, name) ==
    IF name \notin DOMAIN cfg.providers
    THEN [status |-> "exit1", config |-> cfg, file |-> f, client |-> client]
    ELSE LET cfg1 == [cfg EXCEPT !.providers =
                         [n \in DOMAIN cfg.providers \ {name} |-> cfg.providers[n]]]
         IN  [status |-> "ok", config |-> cfg1,
              file |-> set_restrictive_permissions(save(cfg1, f)), client |-> client]

\* remove that always clears current_provider
removeClearAlways(cfg, f, client, name) ==
    IF name \notin DOMAIN cfg.providers
    THEN [status |-> "exit1", config |-> cfg, file |-> f, client |-> client]
    ELSE LET cfg1 == [providers |->
                         [n \in DOMAIN cfg.providers \ {name} |-> cfg.providers[n]],
                      current_provider |-> None]
         IN  [status |-> "ok", config |-> cfg1,
              file |-> set_restrictive_permissions(save(cfg1, f)), client |-> client]

\* remove that saves before it deletes the entry
removeSaveFirst(cfg, f, client, name) ==
    IF name \notin DOMAIN cfg.providers
    THEN [status |-> "exit1", config |-> cfg, file |-> f, client |-> client]
    ELSE LET cur == IF cfg.current_provider = name THEN None ELSE cfg.current_provider
             cfg0 == [cfg EXCEPT !.current_provider = cur]
             cfg1 == [providers |->
                         [n \in DOMAIN cfg.providers \ {name} |-> cfg.providers[n]],
                      current_provider |-> cur]
         IN  [status |-> "ok", config |-> cfg1,
              file |-> set_restrictive_permissions(save(cfg0, f)), client |-> client]

\* ProviderCommands.remove
remove(cfg, f, client, name) ==
    IF name \notin DOMAIN cfg.providers THEN Result("exit1", cfg, f, client)
    ELSE LET cur == IF cfg.current_provider = name THEN None ELSE cfg.current_provider
             cfg1 == [providers |->
                         [n \in DOMAIN cfg.providers \ {name} |-> cfg.providers[n]],
                      current_provider |-> cur]
         IN  Result("ok", cfg1, set_restrictive_permissions(save(cfg1, f)), client)

\* ProviderCommands.remove_all
remove_all(cfg, f, client) ==
    IF DOMAIN cfg.providers = {} THEN Result("ok", cfg, f, client)
    ELSE LET cfg1 == remove_all_providers(cfg)
         IN  Result("ok", cfg1, set_restrictive_permissions(save(cfg1, f)), client)

(***************************************************************************)
(* The inputs of the commands                                              *)
(***************************************************************************)
\* a passbolt add whose arguments and environment are all in order
GoodPassbolt(name, root) ==
    [name |-> name, provider |-> "passbolt", server |-> Server,
     private_key_file |-> KeyFile, organization_root_folder |-> root,
     passphrase |-> TRUE, configure |-> "ok"]

\* the same with one thing wrong: no server, no key file, no passphrase, or a
\* passbolt configure that fails or cannot be run
BadPassbolt(name) ==
    LET g == GoodPassbolt(name, None)
    IN  {[g EXCEPT !.server = None], [g EXCEPT !.private_key_file = None],
         [g EXCEPT !.server = "", !.private_key_file = ""],
         [g EXCEPT !.passphrase = FALSE],
         [g EXCEPT !.configure = "failed"], [g EXCEPT !.configure = "missing"]}

AddArgs ==
    {GoodPassbolt(n, r) : n \in Names, r \in {None, RootFolder}}
    \cup UNION {BadPassbolt(n) : n \in Names}
    \cup [name : Names, provider : ProviderArgs \ {"passbolt"}, server : {None},
          private_key_file : {None}, organization_root_folder : {None},
          passphrase : {TRUE}, configure : {"ok"}]

\* a name that is never configured is always at hand
UseNames == Names \cup {"nonexistent"}

(***************************************************************************)
(* What a step does outside the configuration                              *)
(***************************************************************************)
NoEffects ==
    [built |-> FALSE, calls |-> {}, wrote |-> FALSE,
     inv_built |-> FALSE, inv_calls |-> FALSE]

\* the effects of a step after prev: built, an adapter constructor was
\* invoked; calls, the backend programs and adapter operations invoked; wrote,
\* a file of the project directory was written or deleted
Effects(prev, built, calls, wrote) ==
    [built |-> built, calls |-> calls, wrote |-> wrote,
     inv_built |-> prev.inv_built \/ built,
     inv_calls |-> prev.inv_calls \/ calls # {}]

\* _initialize_client reaches one of its three constructor calls
Builds(cfg) ==
    HasCurrentProvider(cfg) /\ get_current_provider(cfg).type \in ProviderTypes

\* GoogleSecretsManager.__init__ runs gcloud (--version, config get-value);
\* the other two constructors run nothing
BuildCalls(cfg) ==
    IF Builds(cfg) /\ get_current_provider(cfg).type = "google"
    THEN {"gcloud"} ELSE {}

\* main(): both managers are built only when the file loads
StartEffects(f) ==
    LET ld == load(f)
    IN  IF ld.ok THEN Effects(NoEffects, Builds(ld.config), BuildCalls(ld.config), FALSE)
        ELSE NoEffects

\* add runs "passbolt configure" once server, key file and passphrase are there
AddEffects(prev, a) ==
    Effects(prev, FALSE,
            IF /\ a.provider = "passbolt"
               /\ ~Falsy(a.server) /\ ~Falsy(a.private_key_file) /\ a.passphrase
            THEN {"passbolt configure"} ELSE {},
            FALSE)

\* use calls _initialize_client after it has switched and saved
UseEffects(prev, cfg, name) ==
    LET cfg1 == [cfg EXCEPT !.current_provider = name]
    IN  IF name \in DOMAIN cfg.providers
        THEN Effects(prev, Builds(cfg1), BuildCalls(cfg1), FALSE)
        ELSE Effects(prev, FALSE, {}, FALSE)

NoWriting == Result("none", EmptyConfiguration, AbsentFile, NoClient)

NoBackend == [cls |-> "None", projects |-> <<>>, secrets |-> EmptyFcn]

NoOutcome ==
    [op |-> "none", name |-> None, ref |-> [none |-> TRUE, text |-> <<>>],
     reach |-> TRUE, result |-> [kind |-> "none", value |-> None, error |-> "none"],
     queries |-> <<>>, temp |-> {}]

\* no second invocation is running
NoRace == [procs |-> <<>>, saved |-> <<>>]

\* no project directory
NoProject ==
    [yaml |-> [exists |-> FALSE, project_id |-> None, secrets |-> EmptyFcn],
     resources |-> <<>>,
     ran |-> [file |-> None, force |-> FALSE, status |-> "none", calls |-> <<>>]]

(***************************************************************************)
(* nsm.py: the provider-scoped commands                                    *)
(***************************************************************************)
ScopedCommands ==
    {"secret list", "secret get", "secret set", "secret delete",
     "projects", "organizations", "set_access_token",
     "passbolt list_folders", "passbolt get_or_create_folder",
     "project create",
     "project secret add", "project secret clean", "project secret restore"}

\* a guard that lets every call through
require_nothing(client) == TRUE

\* require_provider: _ensure_client_initialized changes nothing, so the call
\* goes through exactly when current_client is set
require_provider(client) == client # NoClient

\* set_access_token is the one command without the decorator
Guarded(cmd) == cmd # "set_access_token"

\* no command asks for a particular adapter class
ExclusiveNone(cmd) == "any"

\* the class the command's isinstance test asks for
Exclusive(cmd) ==
    CASE cmd \in {"passbolt list_folders", "passbolt get_or_create_folder",
                  "project create", "project secret add",
                  "project secret clean", "project secret restore"}
            -> "PassboltClient"
      [] cmd = "set_access_token" -> "BitwardenClient"
      [] OTHER -> "any"

\* the adapter operation the body of the command calls
AdapterOperation(cmd) ==
    CASE cmd = "secret list" -> {"list_secrets"}
      [] cmd = "secret get" -> {"get_secret"}
      [] cmd = "secret set" -> {"store_secret"}
      [] cmd = "secret delete" -> {"delete_secret"}
      [] cmd = "projects" -> {"list_projects"}
      [] cmd = "organizations" -> {"list_organizations"}
      [] cmd = "set_access_token" -> {"set_access_token"}
      [] cmd = "passbolt list_folders" -> {"list_folders"}
      [] cmd \in {"passbolt get_or_create_folder", "project create"}
            -> {"get_or_create_folder_by_name"}
      [] cmd = "project secret add" -> {"_execute_json_command"}
      [] cmd = "project secret restore" -> {"_execute_command"}
      [] OTHER -> {}

Outcome(status, called, wrote) ==
    [status |-> status, called |-> called, wrote |-> wrote]

\* how the body of a command can end once the guards have let it through:
\* its status, whether it has called the adapter, whether it has written or
\* deleted a file of the project directory
BodyOutcomes(cmd, cfg) ==
    CASE cmd = "project create" ->
            IF \/ ~HasCurrentProvider(cfg)
               \/ Falsy(get_current_provider(cfg).organization_root_folder)
            THEN {Outcome("exit1", FALSE, FALSE)}
            ELSE {Outcome("ok", TRUE, TRUE), Outcome("ok", TRUE, FALSE),
                  Outcome("raised", TRUE, FALSE)}
      [] cmd = "project secret add" ->
            {Outcome("exit1", FALSE, FALSE), Outcome("exit1", TRUE, FALSE),
             Outcome("ok", TRUE, FALSE), Outcome("ok", TRUE, TRUE)}
      [] cmd = "project secret clean" ->
            {Outcome("ok", FALSE, FALSE), Outcome("ok", FALSE, TRUE)}
      [] cmd = "project secret restore" ->
            {Outcome("ok", FALSE, FALSE), Outcome("ok", TRUE, FALSE),
             Outcome("ok", TRUE, TRUE)}
      [] OTHER -> {Outcome("ok", TRUE, FALSE), Outcome("raised", TRUE, FALSE)}

Invocation(status, cfg, f, client, built, calls, wrote) ==
    [status |-> status, config |-> cfg, file |-> f, client |-> client,
     built |-> built, calls |-> calls, wrote |-> wrote]

\* "nsm <cmd>": Fire builds NillebCoSecretsManager from the file, then the
\* command group's manager from the same configuration, then calls the command.
\* ld is what Configuration.load(f) gave; gcloud tells whether
\* GoogleSecretsManager() finds its environment during this invocation; body is
\* the outcome the body takes when it is reached.
invoke(f, ld, cmd, gcloud, body) ==
    LET f1 == set_restrictive_permissions(f)
        init == initialize_client(ld.config, NoClient, gcloud)
        built == Builds(ld.config)
        calls == BuildCalls(ld.config)
    IN  IF ~ld.ok
        THEN Invocation("raised", EmptyConfiguration, f, NoClient, FALSE, {}, FALSE)
        ELSE IF init.raised
        THEN Invocation("raised", ld.config, f1, NoClient, built, calls, FALSE)
        ELSE IF Guarded(cmd) /\ ~require_provider(init.client)
        THEN Invocation("exit1", ld.config, f1, init.client, built, calls, FALSE)
        ELSE IF Exclusive(cmd) # "any" /\ init.client.cls # Exclusive(cmd)
        THEN Invocation("exit1", ld.config, f1, init.client, built, calls, FALSE)
        ELSE Invocation(body.status, ld.config, f1, init.client, built,
                        calls \cup (IF body.called THEN AdapterOperation(cmd) ELSE {}),
                        body.wrote)

(***************************************************************************)
(* The state machine                                                       *)
(***************************************************************************)
Last(op, name, provider, status) ==
    [op |-> op, name |-> name, provider |-> provider, status |-> status]

\* the command ends: its effects stay, and a failed command ends the process
Finish(r, op, name, provider) ==
    /\ file' = r.file
    /\ config' = r.config
    /\ current_client' = r.client
    /\ pc' = IF r.status = "ok" THEN "live" ELSE "dead"
    /\ last' = Last(op, name, provider, r.status)

\* a new invocation of the tool: main() builds NillebCoSecretsManager, and the
\* provider group builds ProviderCommands
Start ==
    /\ \E g1 \in BOOLEAN, g2 \in BOOLEAN :
        Finish(construct(file, g1, g2), "start", None, None)
    /\ effects' = StartEffects(file)
    /\ UNCHANGED <<adapterVars, writing, race, project>>

Add ==
    /\ pc = "live"
    /\ \E a \in AddArgs :
        /\ Finish(add(config, file, current_client, a), "add", a.name, a.provider)
        /\ effects' = AddEffects(effects, a)
    /\ UNCHANGED <<adapterVars, writing, race, project>>

Use ==
    /\ pc = "live"
    /\ \E name \in UseNames, gcloud \in BOOLEAN :
        /\ Finish(use(config, file, current_client, name, gcloud), "use", name, None)
        /\ effects' = UseEffects(effects, config, name)
    /\ UNCHANGED <<adapterVars, writing, race, project>>

List ==
    /\ pc = "live"
    /\ last' = Last("list", None, None, "ok")
    /\ effects' = Effects(effects, FALSE, {}, FALSE)
    /\ UNCHANGED <<file, config, current_client, pc>>
    /\ UNCHANGED <<adapterVars, writing, race, project>>

Remove ==
    /\ pc = "live"
    /\ \E name \in UseNames :
        Finish(remove(config, file, current_client, name), "remove", name, None)
    /\ effects' = Effects(effects, FALSE, {}, FALSE)
    /\ UNCHANGED <<adapterVars, writing, race, project>>

RemoveAll ==
    /\ pc = "live"
    /\ Finish(remove_all(config, file, current_client), "remove_all", None, None)
    /\ effects' = Effects(effects, FALSE, {}, FALSE)
    /\ UNCHANGED <<adapterVars, writing, race, project>>

\* one invocation of a provider-scoped command, from main() to the exit
Invoke ==
    /\ \E ld \in {load(file)}, cmd \in ScopedCommands, gcloud \in BOOLEAN :
        \E body \in BodyOutcomes(cmd, ld.config) :
            \E r \in {invoke(file, ld, cmd, gcloud, body)} :
                /\ file' = r.file
                /\ config' = r.config
                /\ current_client' = r.client
                /\ pc' = "done"
                /\ last' = Last(cmd, None, None, r.status)
                /\ effects' = Effects(NoEffects, r.built, r.calls, r.wrote)
    /\ UNCHANGED <<adapterVars, writing, race, project>>

Next == Start \/ Add \/ Use \/ List \/ Remove \/ RemoveAll

\* an empty configuration: no file yet, or a file holding the empty document
EmptyFiles ==
    {AbsentFile} \cup
    {[save(EmptyConfiguration, AbsentFile) EXCEPT !.mode = m] : m \in {"0600", "0644"}}

InitProcess ==
    /\ config = EmptyConfiguration
    /\ current_client = NoClient
    /\ pc = "none"
    /\ last = Last("none", None, None, "ok")
    /\ effects = NoEffects
    /\ backend = NoBackend
    /\ outcome = NoOutcome
    /\ writing = NoWriting
    /\ race = NoRace
    /\ project = NoProject

Init == file \in EmptyFiles /\ InitProcess

Spec == Init /\ [][Next]_vars

(***************************************************************************)
(* Any configuration file: the documents the tool writes, for any set of   *)
(* providers and any current_provider (a file may be edited by hand, so    *)
(* current_provider may name no entry), and documents that were not        *)
(* written by the tool.                                                    *)
(***************************************************************************)
\* the entries add stores under a name
StoredEntries(n) ==
    {ProviderConfig("bitwarden", n, None, None, None, None),
     ProviderConfig("google", None, None, None, None, None),
     ProviderConfig("passbolt", None, None, Server, KeyFile, None),
     ProviderConfig("passbolt", None, None, Server, KeyFile, RootFolder)}

StoredMaps ==
    UNION {{m \in [S -> UNION {StoredEntries(n) : n \in Names}] :
                \A n \in S : m[n] \in StoredEntries(n)} : S \in SUBSET Names}

StoredConfigs ==
    {[providers |-> m, current_provider |-> c] :
        m \in StoredMaps, c \in Names \cup {None, "gone"}}

\* documents written by hand
OddDocuments ==
    {EmptyFcn,
     [providers |-> ("work" :> [type |-> "google"])],
     [current_provider |-> "work"],
     [providers |-> ("work" :> [org |-> "work"]), current_provider |-> "work"],
     SaveDocument([providers |->
                      ("work" :> ProviderConfig("aws", None, None, None, None, None)),
                   current_provider |-> "work"]),
     [providers |-> ("work" :> [type |-> "bitwarden", token |-> "t"]),
      current_provider |-> JNull],
     [providers |-> ("work" :> [type |-> "bitwarden"]), current_provider |-> "work"],
     [providers |-> ("work" :> [type |-> "bitwarden", org |-> "acme"]),
      current_provider |-> "work"],
     [providers |-> EmptyFcn, current_provider |-> JNull, version |-> "1"]}

FileModes == {"0600", "0644"}

AnyFiles ==
    {AbsentFile}
    \cup {[exists |-> TRUE, kind |-> k, doc |-> EmptyFcn, mode |-> m] :
            k \in {"notjson", "array"}, m \in FileModes}
    \cup {[exists |-> TRUE, kind |-> "object", doc |-> d, mode |-> m] :
            d \in {SaveDocument(c) : c \in StoredConfigs} \cup OddDocuments,
            m \in FileModes}

InitAny == file \in AnyFiles /\ InitProcess

SpecAny == InitAny /\ [][Next]_vars

(***************************************************************************)
(* Configuration.save followed by Configuration.load, on any Configuration *)
(***************************************************************************)
\* a ProviderConfig of one of the three types, any optional field None or set
AnyEntries ==
    [type : ProviderTypes, org : {None, "acme"}, project_id : {None, "p1"},
     server : {None, Server}, private_key_file : {None, KeyFile},
     organization_root_folder : {None, RootFolder}]

AnyConfigs ==
    StoredConfigs \cup
    {[providers |-> (n :> e), current_provider |-> c] :
        n \in Names, e \in AnyEntries, c \in Names \cup {None, "gone"}}

\* config.save(path)
SaveStep ==
    /\ pc = "config"
    /\ file' = save(config, file)
    /\ pc' = "saved"
    /\ last' = Last("save", None, None, "ok")
    /\ UNCHANGED <<config, current_client, effects>>
    /\ UNCHANGED <<adapterVars, writing, race, project>>

\* config = Configuration.load(path)
LoadStep ==
    /\ pc = "saved"
    /\ LET ld == load(file)
       IN  /\ config' = ld.config
           /\ last' = Last("load", None, None, IF ld.ok THEN "ok" ELSE "raised")
    /\ pc' = "loaded"
    /\ UNCHANGED <<file, current_client, effects>>
    /\ UNCHANGED <<adapterVars, writing, race, project>>

NextRoundTrip == SaveStep \/ LoadStep

InitRoundTrip ==
    /\ config \in AnyConfigs
    /\ file \in {AbsentFile, [exists |-> TRUE, kind |-> "notjson", doc |-> EmptyFcn,
                              mode |-> "0644"]}
    /\ current_client = NoClient
    /\ pc = "config"
    /\ last = Last("none", None, None, "ok")
    /\ effects = NoEffects
    /\ backend = NoBackend
    /\ outcome = NoOutcome
    /\ writing = NoWriting
    /\ race = NoRace
    /\ project = NoProject

SpecRoundTrip == InitRoundTrip /\ [][NextRoundTrip]_vars

(***************************************************************************)
(* A saving command step by step: open(file_path, "w"), json.dump,         *)
(* os.chmod, the rest of the command; the process may be killed in between *)
(***************************************************************************)
\* the commands that reach config.save, each with the result it ends with
SavingCommands(cfg, f, client, eff) ==
    {[op |-> "add", name |-> a.name, provider |-> a.provider,
      result |-> add(cfg, f, client, a), effects |-> AddEffects(eff, a)] :
        a \in {b \in AddArgs : add(cfg, f, client, b).status = "ok"}}
    \cup {[op |-> "use", name |-> n, provider |-> None,
           result |-> use(cfg, f, client, n, g), effects |-> eff] :
            n \in DOMAIN cfg.providers, g \in BOOLEAN}
    \cup {[op |-> "remove", name |-> n, provider |-> None,
           result |-> remove(cfg, f, client, n),
           effects |-> Effects(eff, FALSE, {}, FALSE)] :
            n \in DOMAIN cfg.providers}
    \cup {[op |-> "remove_all", name |-> None, provider |-> None,
           result |-> remove_all(cfg, f, client),
           effects |-> Effects(eff, FALSE, {}, FALSE)] :
            n \in {m \in {None} : DOMAIN cfg.providers # {}}}

\* open(file_path, "w") creates the file or cuts it to length zero
Truncated(f) ==
    [exists |-> TRUE, kind |-> "empty", doc |-> EmptyFcn,
     mode |-> IF f.exists THEN f.mode ELSE "0644"]

\* the command has changed the configuration in memory and opens the file
BeginSave ==
    /\ pc = "live"
    /\ \E c \in SavingCommands(config, file, current_client, effects) :
        /\ config' = c.result.config
        /\ writing' = c.result
        /\ last' = Last(c.op, c.name, c.provider, "saving")
        /\ effects' = c.effects
    /\ file' = Truncated(file)
    /\ pc' = "opened"
    /\ UNCHANGED <<current_client, adapterVars, race, project>>

\* json.dump writes the document and the with block closes the file
Dump ==
    /\ pc = "opened"
    /\ file' = save(config, file)
    /\ pc' = "written"
    /\ UNCHANGED <<config, current_client, last, effects, writing, adapterVars, race, project>>

Chmod ==
    /\ pc = "written"
    /\ file' = set_restrictive_permissions(file)
    /\ pc' = "restricted"
    /\ UNCHANGED <<config, current_client, last, effects, writing, adapterVars, race, project>>

\* what follows the chmod: _initialize_client in use, the message in the others
Complete ==
    /\ pc = "restricted"
    /\ current_client' = writing.client
    /\ pc' = IF writing.status = "ok" THEN "live" ELSE "dead"
    /\ last' = [last EXCEPT !.status = writing.status]
    /\ effects' = IF last.op = "use"
                  THEN Effects(effects, Builds(config), BuildCalls(config), FALSE)
                  ELSE effects
    /\ writing' = NoWriting
    /\ UNCHANGED <<file, config, adapterVars, race, project>>

\* the process is killed; killed inside json.dump, the file holds the part of
\* the document written so far, which may be nothing
Crash ==
    /\ pc \in {"opened", "written", "restricted"}
    /\ file' \in IF pc = "opened"
                 THEN {file, [file EXCEPT !.kind = "partial"]}
                 ELSE {file}
    /\ pc' = "dead"
    /\ last' = [last EXCEPT !.status = "killed"]
    /\ writing' = NoWriting
    /\ UNCHANGED <<config, current_client, effects, adapterVars, race, project>>

\* the next invocation of nsm
Restart ==
    /\ pc \notin {"opened", "written", "restricted"}
    /\ Start

NextSave == Restart \/ BeginSave \/ Dump \/ Chmod \/ Complete \/ Crash

SpecSave == InitAny /\ [][NextSave]_vars

(***************************************************************************)
(* The command line over any stored file: the provider-scoped commands     *)
(* leave the configuration as it is, so every invocation of one is a       *)
(* process of its own that starts from the file                            *)
(***************************************************************************)
NextInvoke == Start \/ Invoke

SpecInvoke == InitAny /\ [][NextInvoke]_vars

(***************************************************************************)
(* Two invocations of nsm at once on the same file. Each loads the file in *)
(* its constructor, changes its configuration in memory and saves; nothing *)
(* in Configuration.save keeps the two saves apart, so the steps of one    *)
(* (open, json.dump and close, chmod) interleave with the steps of the     *)
(* other.                                                                  *)
(***************************************************************************)
Procs == {1, 2}

\* the number of characters json.dump writes for a value: null, or the string
\* between quotes
JsonValueLen(j) == IF j = JNull THEN 4 ELSE Len(j) + 2

RECURSIVE JsonMembersLen(_, _)
\* the members of a JSON object, "key": value, joined by ", "; size[k] is the
\* number of characters of the value of k
JsonMembersLen(keys, size) ==
    IF keys = {} THEN 0
    ELSE LET k == CHOOSE x \in keys : TRUE
         IN  Len(k) + 4 + size[k]
             + (IF keys = {k} THEN 0 ELSE 2)
             + JsonMembersLen(keys \ {k}, size)

\* the number of characters of the document json.dump(data, f) writes
JsonLen(doc) ==
    LET entry(n) ==
            2 + JsonMembersLen(DOMAIN doc.providers[n],
                    [f \in DOMAIN doc.providers[n] |-> JsonValueLen(doc.providers[n][f])])
        member(k) ==
            IF k = "providers"
            THEN 2 + JsonMembersLen(DOMAIN doc.providers,
                        [n \in DOMAIN doc.providers |-> entry(n)])
            ELSE JsonValueLen(doc[k])
    IN  2 + JsonMembersLen(DOMAIN doc, [k \in DOMAIN doc |-> member(k)])

\* the number of characters in the file
FileLen(f) == IF f.exists /\ f.kind \in {"object", "spliced"} THEN JsonLen(f.doc) ELSE 0

\* json.dump through a handle opened with "w" and the close of the with block:
\* the document goes to the start of the file; what another handle has
\* written since this one was opened stays beyond the end of the document,
\* and the file ("spliced") is a document followed by the rest of a longer one
WriteAtStart(cfg, f) ==
    IF JsonLen(SaveDocument(cfg)) >= FileLen(f) THEN save(cfg, f)
    ELSE [f EXCEPT !.kind = "spliced"]

Idle == [pc |-> "none", config |-> EmptyConfiguration, early |-> FALSE, op |-> "none"]

\* BaseManager.__init__: Configuration.load and the chmod of the file
RaceLoad(i) ==
    /\ race.procs[i].pc = "none"
    /\ \E ld \in {load(file)} :
        /\ ld.ok
        /\ race' = [race EXCEPT !.procs[i] =
                      [pc |-> "loaded", config |-> ld.config,
                       early |-> \A j \in Procs : race.procs[j].pc \in {"none", "loaded"},
                       op |-> "none"]]
    /\ file' = set_restrictive_permissions(file)
    /\ UNCHANGED <<config, current_client, pc, last, effects, writing, adapterVars, project>>

\* a command that succeeds changes the configuration and opens the file
RaceOpen(i) ==
    /\ race.procs[i].pc = "loaded"
    /\ \E c \in SavingCommands(race.procs[i].config, file, NoClient, NoEffects) :
        /\ c.result.status = "ok"
        /\ race' = [race EXCEPT !.procs[i].pc = "opened",
                                !.procs[i].config = c.result.config,
                                !.procs[i].op = c.op]
    /\ file' = Truncated(file)
    /\ UNCHANGED <<config, current_client, pc, last, effects, writing, adapterVars, project>>

RaceDump(i) ==
    /\ race.procs[i].pc = "opened"
    /\ file' = WriteAtStart(race.procs[i].config, file)
    /\ race' = [race EXCEPT !.procs[i].pc = "written", !.saved = Append(@, i)]
    /\ UNCHANGED <<config, current_client, pc, last, effects, writing, adapterVars, project>>

RaceChmod(i) ==
    /\ race.procs[i].pc = "written"
    /\ file' = set_restrictive_permissions(file)
    /\ race' = [race EXCEPT !.procs[i].pc = "done"]
    /\ UNCHANGED <<config, current_client, pc, last, effects, writing, adapterVars, project>>

NextRace == \E i \in Procs : RaceLoad(i) \/ RaceOpen(i) \/ RaceDump(i) \/ RaceChmod(i)

\* the files nsm itself leaves behind
RaceFiles ==
    {set_restrictive_permissions(save(c, AbsentFile)) :
        c \in {d \in StoredConfigs : d.current_provider \in DOMAIN d.providers \cup {None}}}

InitRace ==
    /\ file \in RaceFiles
    /\ config = EmptyConfiguration
    /\ current_client = NoClient
    /\ pc = "none"
    /\ last = Last("none", None, None, "ok")
    /\ effects = NoEffects
    /\ writing = NoWriting
    /\ backend = NoBackend
    /\ outcome = NoOutcome
    /\ race = [procs |-> [i \in Procs |-> Idle], saved |-> <<>>]
    /\ project = NoProject

SpecRace == InitRace /\ [][NextRace]_vars

(***************************************************************************)
(* The adapters: bitwarden_client.py, passbolt_client.py,                  *)
(* google_secrets_manager.py. A backend holds projects and secrets; an     *)
(* operation returns a value or raises, and issues commands to the         *)
(* backend's program. Project names, identifiers and references are        *)
(* sequences of characters, because the code counts their hyphens.         *)
(***************************************************************************)
MaxProjects == 2

\* an identifier in the shape the backend gives them: five groups, four hyphens
Uuid(d) == <<d, "-", d, "-", d, "-", d, "-", d>>

IdPool == <<Uuid("1"), Uuid("2"), Uuid("3"), Uuid("4")>>

ProjectIds == {IdPool[i] : i \in 1..MaxProjects}

Alpha == <<"a", "l", "p", "h", "a">>

\* a project name with four hyphens of its own
Dashed == <<"a", "-", "b", "-", "c", "-", "d", "-", "e">>

Missing == <<"m", "i", "s", "s">>

ProjectNames == {Alpha, Dashed}

\* str.count for a single character
count(s, ch) == Cardinality({i \in 1..Len(s) : s[i] = ch})

\* an Optional[str] parameter: None, or a string
NoneRef == [none |-> TRUE, text |-> <<>>]

Ref(text) == [none |-> FALSE, text |-> text]

\* the truth value Python gives the parameter
Truthy(ref) == ~ref.none /\ ref.text # <<>>

\* no reference, the empty string, two names, a name no project has, the
\* identifier of a project and an identifier no project has
ProjectRefs ==
    {NoneRef, Ref(<<>>), Ref(Alpha), Ref(Dashed), Ref(Missing),
     Ref(IdPool[1]), Ref(Uuid("9"))}

SecretNames == {"k1", "k2"}

SecretValues == {"v", ""}

\* the project lists the backend can answer with: identifiers are unique,
\* names need not be
ProjectLists ==
    {ps \in UNION {[1..n -> [name : ProjectNames, id : ProjectIds]] : n \in 0..MaxProjects} :
        \A i, j \in 1..Len(ps) : ps[i].id = ps[j].id => i = j}

IdsOf(ps) == {ps[i].id : i \in 1..Len(ps)}

\* the secrets a backend can hold, all with one value and in one of the
\* projects ids
Stores(ids) ==
    {[k \in S |-> [value |-> v, project |-> id]] :
        S \in SUBSET SecretNames, v \in SecretValues, id \in ids}

\* the project of a GoogleSecretsManager (self.project_id), the one folder of
\* a PassboltClient
OwnProject == IdPool[1]

AnyBackends ==
    UNION {{[cls |-> "BitwardenClient", projects |-> ps, secrets |-> st] :
                st \in Stores(IdsOf(ps))} : ps \in ProjectLists \ {<<>>}}
    \cup {[cls |-> "BitwardenClient", projects |-> <<>>, secrets |-> EmptyFcn]}
    \cup {[cls |-> c, projects |-> <<>>, secrets |-> st] :
            c \in {"PassboltClient", "GoogleSecretsManager"}, st \in Stores({OwnProject})}

Ok(v) == [kind |-> "ok", value |-> v, error |-> "none"]

Raised(e) == [kind |-> "raised", value |-> None, error |-> e]

Query(cmd, arg) == [cmd |-> cmd, arg |-> arg]

Answer(result, queries, secrets) ==
    [result |-> result, queries |-> queries, secrets |-> secrets]

\* the secrets of b that lie in the project the reference names, all of them
\* without a reference
SecretsIn(b, ref) ==
    {k \in DOMAIN b.secrets : Truthy(ref) => b.secrets[k].project = ref.text}

\* BitwardenClient._resolve_project_id over the answer of list_projects
resolve_project_id(projects, project_name) ==
    LET named == {i \in 1..Len(projects) : projects[i].name = project_name}
    IN  IF named = {} THEN NoneRef
        ELSE Ref(projects[CHOOSE i \in named : \A j \in named : i <= j].id)

\* "bws secret list [project_id]": bws refuses an identifier it has no
\* project for
bws_secret_list(b, ref) ==
    IF Truthy(ref) /\ ref.text \notin IdsOf(b.projects)
    THEN Raised("Failed to list secrets")
    ELSE Ok({[key |-> k, value |-> b.secrets[k].value, project |-> b.secrets[k].project] :
                k \in SecretsIn(b, ref)})

\* BitwardenClient.list_secrets. reach tells whether the bws commands of this
\* operation succeed.
bitwarden_list_secrets(b, project_id, reach) ==
    LET isname == Truthy(project_id) /\ ~(count(project_id.text, "-") = 4)
        resolved_id == resolve_project_id(b.projects, project_id.text)
        asked == IF isname THEN <<Query("project list", NoneRef)>> ELSE <<>>
        arg == IF isname THEN resolved_id ELSE project_id
    IN  IF isname /\ ~reach
        THEN Answer(Raised("Failed to list secrets"), asked, b.secrets)
        ELSE IF isname /\ ~Truthy(resolved_id)
        THEN Answer(Raised("Failed to list secrets: Project not found"), asked, b.secrets)
        ELSE Answer(IF reach THEN bws_secret_list(b, arg)
                    ELSE Raised("Failed to list secrets"),
                    asked \o <<Query("secret list", arg)>>, b.secrets)

\* BitwardenClient.get_secret
bitwarden_get_secret(b, name, project_id, reach) ==
    LET isname == Truthy(project_id) /\ ~(count(project_id.text, "-") = 4)
        resolved_id == resolve_project_id(b.projects, project_id.text)
        asked == IF isname THEN <<Query("project list", NoneRef)>> ELSE <<>>
        listed == bitwarden_list_secrets(b, IF isname THEN resolved_id ELSE project_id,
                                         reach)
        found == {s \in listed.result.value : s.key = name}
    IN  IF isname /\ ~reach
        THEN Answer(Raised("Failed to list projects"), asked, b.secrets)
        ELSE IF isname /\ ~Truthy(resolved_id)
        THEN Answer(Raised("Project not found"), asked, b.secrets)
        ELSE IF listed.result.kind = "raised"
        THEN Answer(listed.result, asked \o listed.queries, b.secrets)
        ELSE Answer(IF found = {} THEN Ok(None) ELSE Ok((CHOOSE s \in found : TRUE).value),
                    asked \o listed.queries, b.secrets)

\* BitwardenClient.delete_secret
bitwarden_delete_secret(b, name, reach) ==
    LET got == bitwarden_get_secret(b, name, NoneRef, reach)
    IN  IF got.result.kind = "raised" THEN got
        ELSE IF Falsy(got.result.value) THEN Answer(Ok(FALSE), got.queries, b.secrets)
        ELSE Answer(Ok(TRUE), got.queries \o <<Query("secret delete", name)>>,
                    [k \in DOMAIN b.secrets \ {name} |-> b.secrets[k]])

\* PassboltClient.list_secrets: the summaries carry no value
passbolt_list_secrets(b, project_id, reach) ==
    Answer(IF reach THEN Ok({[name |-> k] : k \in SecretsIn(b, project_id)})
           ELSE Raised("Failed to list secrets"),
           <<Query("list resource", project_id)>>, b.secrets)

\* PassboltClient.get_secret
passbolt_get_secret(b, name, project_id, reach) ==
    IF ~reach
    THEN Answer(Raised("Failed to get secret"), <<Query("list resource", name)>>, b.secrets)
    ELSE IF name \notin SecretsIn(b, project_id)
    THEN Answer(Ok(None), <<Query("list resource", name)>>, b.secrets)
    ELSE Answer(Ok(b.secrets[name].value),
                <<Query("list resource", name), Query("get resource", name)>>, b.secrets)

\* PassboltClient.delete_secret
passbolt_delete_secret(b, name, reach) ==
    IF ~reach
    THEN Answer(Raised("Failed to delete secret"), <<Query("list resource", name)>>,
                b.secrets)
    ELSE IF name \notin DOMAIN b.secrets
    THEN Answer(Ok(FALSE), <<Query("list resource", name)>>, b.secrets)
    ELSE Answer(Ok(TRUE), <<Query("list resource", name), Query("delete resource", name)>>,
                [k \in DOMAIN b.secrets \ {name} |-> b.secrets[k]])

\* project_id or self.project_id
TargetProject(project_id) == IF Truthy(project_id) THEN project_id ELSE Ref(OwnProject)

\* GoogleSecretsManager.list_secrets
google_list_secrets(b, project_id, reach) ==
    Answer(IF reach
           THEN Ok({[name |-> k] : k \in SecretsIn(b, TargetProject(project_id))})
           ELSE Raised("Failed to list secrets"),
           <<Query("secrets list", TargetProject(project_id))>>, b.secrets)

\* GoogleSecretsManager.get_secret: a gcloud that exits with an error gives None
google_get_secret(b, name, project_id, reach) ==
    Answer(IF reach /\ name \in SecretsIn(b, TargetProject(project_id))
           THEN Ok(b.secrets[name].value) ELSE Ok(None),
           <<Query("secrets versions access", name)>>, b.secrets)

\* delete_secret that lets the error of gcloud through
google_delete_secret_raising(b, name, reach) ==
    IF reach /\ name \in DOMAIN b.secrets
    THEN Answer(Ok(TRUE), <<Query("secrets delete", name)>>,
                [k \in DOMAIN b.secrets \ {name} |-> b.secrets[k]])
    ELSE Answer(Raised("Failed to delete secret"), <<Query("secrets delete", name)>>,
                b.secrets)

\* GoogleSecretsManager.delete_secret: gcloud exits with an error for a secret
\* that does not exist, and the method answers False
google_delete_secret(b, name, reach) ==
    IF reach /\ name \in DOMAIN b.secrets
    THEN Answer(Ok(TRUE), <<Query("secrets delete", name)>>,
                [k \in DOMAIN b.secrets \ {name} |-> b.secrets[k]])
    ELSE Answer(Ok(FALSE), <<Query("secrets delete", name)>>, b.secrets)

\* what security find-generic-password can give get_access_token: a token, an
\* empty line, or an error
Tokens == {"found", "empty", "failed"}

\* the file NamedTemporaryFile(mode="w", delete=False) creates
TempFile == "temp_path"

\* an unlink that is skipped when the try block raised
unlink_on_success(temps, raised) == IF raised THEN temps ELSE {}

\* finally: os.unlink(temp_path), whether or not the try block raised
unlink(temps, raised) == {}

\* the backend with value kept under name
Stored(b, name, value, id) ==
    [k \in DOMAIN b.secrets \cup {name} |->
        IF k = name THEN [value |-> value, project |-> id] ELSE b.secrets[k]]

\* the project bws puts a new secret in
DefaultProject(b) == IF b.projects = <<>> THEN OwnProject ELSE b.projects[1].id

\* BitwardenClient.store_secret: the temporary file is written before the try
\* block; get_access_token and the bws command are inside it
bitwarden_store_secret(b, name, value, token, reach) ==
    LET temps == {TempFile}
        raised == token # "found" \/ ~reach
        queries == IF token = "found" THEN <<Query("secret create", name)>> ELSE <<>>
    IN  [result |-> IF token # "found"
                    THEN Raised("Failed to store secret: no access token")
                    ELSE IF ~reach THEN Raised("Failed to store secret")
                    ELSE Ok(None),
         queries |-> queries,
         secrets |-> IF raised THEN b.secrets
                     ELSE Stored(b, name, value, DefaultProject(b)),
         temp |-> unlink(temps, raised)]

\* PassboltClient.store_secret
passbolt_store_secret(b, name, value, reach) ==
    Answer(IF reach THEN Ok(None) ELSE Raised("Failed to store secret"),
           <<Query("create resource", name)>>,
           IF reach THEN Stored(b, name, value, OwnProject) ELSE b.secrets)

\* GoogleSecretsManager.store_secret: the error of "secrets create" is passed
\* over, the error of "secrets versions add" is raised
google_store_secret(b, name, value, reach) ==
    Answer(IF reach THEN Ok(None) ELSE Raised("Failed to store secret"),
           <<Query("secrets create", name), Query("secrets versions add", name)>>,
           IF reach THEN Stored(b, name, value, OwnProject) ELSE b.secrets)

\* the SecretsManager interface, by the class of the adapter
list_secrets(b, project_id, reach) ==
    CASE b.cls = "BitwardenClient" -> bitwarden_list_secrets(b, project_id, reach)
      [] b.cls = "PassboltClient" -> passbolt_list_secrets(b, project_id, reach)
      [] OTHER -> google_list_secrets(b, project_id, reach)

get_secret(b, name, project_id, reach) ==
    CASE b.cls = "BitwardenClient" -> bitwarden_get_secret(b, name, project_id, reach)
      [] b.cls = "PassboltClient" -> passbolt_get_secret(b, name, project_id, reach)
      [] OTHER -> google_get_secret(b, name, project_id, reach)

delete_secret(b, name, reach) ==
    CASE b.cls = "BitwardenClient" -> bitwarden_delete_secret(b, name, reach)
      [] b.cls = "PassboltClient" -> passbolt_delete_secret(b, name, reach)
      [] OTHER -> google_delete_secret(b, name, reach)

store_secret(b, name, value, token, reach) ==
    CASE b.cls = "BitwardenClient" -> bitwarden_store_secret(b, name, value, token, reach)
      [] b.cls = "PassboltClient" -> passbolt_store_secret(b, name, value, reach)
      [] OTHER -> google_store_secret(b, name, value, reach)

processVars ==
    <<file, config, current_client, pc, last, effects, writing, race, project>>

Operation(op, name, ref, reach, a) ==
    /\ outcome' = [op |-> op, name |-> name, ref |-> ref, reach |-> reach,
                   result |-> a.result, queries |-> a.queries,
                   temp |-> IF "temp" \in DOMAIN a THEN a.temp ELSE {}]
    /\ backend' = [backend EXCEPT !.secrets = a.secrets]
    /\ UNCHANGED processVars

ListSecrets ==
    \E ref \in ProjectRefs, reach \in BOOLEAN :
        \E a \in {list_secrets(backend, ref, reach)} :
            Operation("list_secrets", None, ref, reach, a)

GetSecret ==
    \E name \in SecretNames, ref \in ProjectRefs, reach \in BOOLEAN :
        \E a \in {get_secret(backend, name, ref, reach)} :
            Operation("get_secret", name, ref, reach, a)

DeleteSecret ==
    \E name \in SecretNames, reach \in BOOLEAN :
        \E a \in {delete_secret(backend, name, reach)} :
            Operation("delete_secret", name, NoneRef, reach, a)

StoreSecret ==
    \E name \in SecretNames, value \in SecretValues, token \in Tokens, reach \in BOOLEAN :
        \E a \in {store_secret(backend, name, value, token, reach)} :
            Operation("store_secret", name, NoneRef, reach, a)

NextAdapter == ListSecrets \/ GetSecret \/ DeleteSecret

InitAdapter ==
    /\ file = AbsentFile
    /\ config = EmptyConfiguration
    /\ current_client = NoClient
    /\ pc = "none"
    /\ last = Last("none", None, None, "ok")
    /\ effects = NoEffects
    /\ writing = NoWriting
    /\ race = NoRace
    /\ project = NoProject
    /\ backend \in AnyBackends
    /\ outcome = NoOutcome

SpecAdapter == InitAdapter /\ [][NextAdapter]_vars

\* secrets stored one after the other in any backend
SpecStore == InitAdapter /\ [][StoreSecret]_vars

(***************************************************************************)
(* nsm.py: ProjectSecretCommands.add, in a project directory whose         *)
(* .nsm.yaml names a Passbolt folder. The backend keeps resources, each    *)
(* with an identifier of its own; names need not be unique.                *)
(***************************************************************************)
MaxResources == 3

ResourceIds == <<"r1", "r2", "r3", "r4", "r5">>

SecretFiles == {"a.env", "b.env"}

FolderId == "folder-1"

\* the .nsm.yaml files: none, one without a project_id, one with it
Yamls ==
    {[exists |-> FALSE, project_id |-> None, secrets |-> EmptyFcn],
     [exists |-> TRUE, project_id |-> None, secrets |-> EmptyFcn],
     [exists |-> TRUE, project_id |-> FolderId, secrets |-> EmptyFcn]}

\* _get_project_id_from_yaml: None without the secret_file or without the key
get_project_id_from_yaml(yaml) == IF yaml.exists THEN yaml.project_id ELSE None

\* _add_secret_to_yaml: data['secrets'][file_name] = secret_id
add_secret_to_yaml(yaml, file_name, secret_id) ==
    [yaml EXCEPT !.secrets =
        [f \in DOMAIN yaml.secrets \cup {file_name} |->
            IF f = file_name THEN secret_id ELSE yaml.secrets[f]]]

Call(cmd, arg) == [cmd |-> cmd, arg |-> arg]

Added(p, secret_file, force, status, calls, yaml, resources) ==
    [yaml |-> yaml, resources |-> resources,
     ran |-> [file |-> secret_file, force |-> force, status |-> status, calls |-> calls]]

\* the resources the backend holds under the name, in the order it lists them
ResourcesNamed(resources, secret_file) == SelectSeq(resources, LAMBDA r : r.name = secret_file)

\* ProjectSecretCommands.add. listed: "list resource" succeeds; readable: the
\* secret_file can be read; wrote: how "create resource" or "update resource" ends
\* ("ok", "empty": no output, "failed")
project_secret_add(client, p, secret_file, force, listed, readable, wrote) ==
    LET project_id == get_project_id_from_yaml(p.yaml)
        check == <<Call("list resource", secret_file)>>
        existing_resources == IF listed THEN ResourcesNamed(p.resources, secret_file) ELSE <<>>
        existing_resource_id ==
            IF existing_resources # <<>> /\ force THEN existing_resources[1].id ELSE None
        update == check \o <<Call("update resource", existing_resource_id)>>
        create == check \o <<Call("create resource", secret_file)>>
        secret_id == ResourceIds[Len(p.resources) + 1]
        created == Append(p.resources, [id |-> secret_id, name |-> secret_file, value |-> "new"])
        updated == [i \in 1..Len(p.resources) |->
                        IF p.resources[i].id = existing_resource_id
                        THEN [p.resources[i] EXCEPT !.value = "new"]
                        ELSE p.resources[i]]
    IN  IF ~require_provider(client) \/ client.cls # "PassboltClient"
        THEN Added(p, secret_file, force, "exit1", <<>>, p.yaml, p.resources)
        ELSE IF Falsy(project_id)
        THEN Added(p, secret_file, force, "exit1", <<>>, p.yaml, p.resources)
        ELSE IF existing_resources # <<>> /\ ~force
        THEN Added(p, secret_file, force, "ok", check, p.yaml, p.resources)
        ELSE IF ~readable
        THEN Added(p, secret_file, force, "exit1", check, p.yaml, p.resources)
        ELSE IF existing_resource_id # None
        THEN IF wrote = "failed"
             THEN Added(p, secret_file, force, "exit1", update, p.yaml, p.resources)
             ELSE Added(p, secret_file, force, "ok", update,
                      add_secret_to_yaml(p.yaml, secret_file, existing_resource_id), updated)
        ELSE CASE wrote = "failed" ->
                    Added(p, secret_file, force, "exit1", create, p.yaml, p.resources)
               [] wrote = "empty" ->
                    Added(p, secret_file, force, "exit1", create, p.yaml, created)
               [] OTHER ->
                    Added(p, secret_file, force, "ok", create,
                        add_secret_to_yaml(p.yaml, secret_file, secret_id), created)

ProjectSecretAdd ==
    /\ Len(project.resources) < MaxResources
    /\ \E f \in SecretFiles, force, listed, readable \in BOOLEAN,
          wrote \in {"ok", "empty", "failed"} :
        project' = project_secret_add(current_client, project, f, force, listed,
                                      readable, wrote)
    /\ UNCHANGED <<file, config, current_client, pc, last, effects, writing, adapterVars,
                   race>>

\* the adapters a process can hold
ProjectClients ==
    {NoClient, [cls |-> "PassboltClient", arg |-> None],
     [cls |-> "BitwardenClient", arg |-> "work"]}

InitProject ==
    /\ file = AbsentFile
    /\ config = EmptyConfiguration
    /\ current_client \in ProjectClients
    /\ pc = "live"
    /\ last = Last("none", None, None, "ok")
    /\ effects = NoEffects
    /\ writing = NoWriting
    /\ backend = NoBackend
    /\ outcome = NoOutcome
    /\ race = NoRace
    /\ project \in {[NoProject EXCEPT !.yaml = y] : y \in Yamls}

SpecProject == InitProject /\ [][ProjectSecretAdd]_vars

(***************************************************************************)
(* Properties                                                              *)
(***************************************************************************)
Mutations == {"add", "use", "remove", "remove_all"}

\* current_provider of cfg is null or names one of its providers
CurrentIsConfigured(cfg) ==
    cfg.current_provider = None \/ cfg.current_provider \in DOMAIN cfg.providers

\* the step is the command op, run on the live ProviderCommands object
Ran(op) == pc = "live" /\ last'.op = op

\* every entry other than the one under name is the same before and after
OthersUnchanged(name) ==
    \A n \in (DOMAIN config.providers \cup DOMAIN config'.providers) \ {name} :
        /\ n \in DOMAIN config.providers
        /\ n \in DOMAIN config'.providers
        /\ config'.providers[n] = config.providers[n]

\* C1: starting from an empty configuration, after any sequence of add, use,
\* remove and remove_all, successful or failed, current_provider is null or a
\* key of providers, in memory and in the file.
C1_CurrentProviderConfigured ==
    /\ CurrentIsConfigured(config)
    /\ load(file).ok
    /\ CurrentIsConfigured(load(file).config)

\* the current provider was removed while another provider stays configured
C1_Witness ==
    /\ last.op = "remove"
    /\ last.status = "ok"
    /\ config.current_provider = None
    /\ DOMAIN config.providers # {}

\* the names of the providers of type google in cfg
GoogleProviders(cfg) == {n \in DOMAIN cfg.providers : cfg.providers[n].type = "google"}

C2_AtMostOneGoogle ==
    /\ Cardinality(GoogleProviders(config)) <= 1
    /\ Cardinality(GoogleProviders(load(file).config)) <= 1

C2_SecondGoogleFails ==
    (Ran("add") /\ last'.provider = "google" /\ GoogleProviders(config) # {})
        => (last'.status = "exit1" /\ config' = config /\ file' = file)

\* C2: an add of a google provider while a google provider exists fails,
\* whatever the two names are (the same name included), and changes nothing;
\* from an empty configuration no configuration with two google providers is
\* reached.
C2_SingleGoogle == []C2_AtMostOneGoogle /\ [][C2_SecondGoogleFails]_vars

\* a google add under another name than the existing google provider's failed
C2_Witness ==
    /\ last.op = "add"
    /\ last.provider = "google"
    /\ last.status = "exit1"
    /\ GoogleProviders(config) # {}
    /\ last.name \notin GoogleProviders(config)

C3_AddUpserts ==
    (Ran("add") /\ last'.status = "ok")
        => /\ DOMAIN config'.providers = DOMAIN config.providers \cup {last'.name}
           /\ config'.providers[last'.name].type = last'.provider
           /\ OthersUnchanged(last'.name)
           /\ (config = EmptyConfiguration
                  => config'.current_provider = last'.name)

C3_UseUnknownFails ==
    (Ran("use") /\ last'.name \notin DOMAIN config.providers)
        => /\ last'.status = "exit1"
           /\ config'.current_provider = config.current_provider

C3_RemoveAllEmpties ==
    Ran("remove_all")
        => /\ last'.status = "ok"
           /\ config' = EmptyConfiguration
           /\ load(file').config = EmptyConfiguration

\* C3: a successful add inserts or replaces the entry under its name and leaves
\* the other entries alone, and the first add to an empty configuration makes
\* that name current; a use of a name that is not configured fails and keeps
\* current_provider; remove_all leaves providers empty and current_provider
\* null.
C3_AddUseRemoveAll ==
    [][C3_AddUpserts /\ C3_UseUnknownFails /\ C3_RemoveAllEmpties]_vars

\* "work" was added first and became current, then use("nonexistent") failed
C3_Witness ==
    /\ last = Last("use", "nonexistent", None, "exit1")
    /\ DOMAIN config.providers = {"work"}
    /\ config.current_provider = "work"
    /\ load(file).config = config

\* C4: use of a name that is not a key of providers exits with status 1 and
\* leaves providers, current_provider, the live adapter and the file unchanged.
C4_UseUnknownChangesNothing ==
    [][(Ran("use") /\ last'.name \notin DOMAIN config.providers)
          => /\ last'.status = "exit1"
             /\ config' = config
             /\ current_client' = current_client
             /\ file' = file]_vars

\* a use of an unknown name failed while a provider is current and its adapter
\* is live
C4_Witness ==
    /\ last.op = "use"
    /\ last.status = "exit1"
    /\ last.name \notin DOMAIN config.providers
    /\ config.current_provider \in DOMAIN config.providers
    /\ current_client # NoClient

C5_RemoveConfigured ==
    (Ran("remove") /\ last'.name \in DOMAIN config.providers)
        => /\ last'.status = "ok"
           /\ DOMAIN config'.providers = DOMAIN config.providers \ {last'.name}
           /\ OthersUnchanged(last'.name)
           /\ config'.current_provider =
                 IF config.current_provider = last'.name
                 THEN None ELSE config.current_provider

C5_RemoveUnknown ==
    (Ran("remove") /\ last'.name \notin DOMAIN config.providers)
        => /\ last'.status = "exit1"
           /\ config' = config
           /\ file' = file

\* C5: remove of a configured name removes exactly that entry; current_provider
\* becomes null when it was that name and is unchanged otherwise; remove of a
\* name that is not configured fails and changes nothing.
C5_RemoveFrame == [][C5_RemoveConfigured /\ C5_RemoveUnknown]_vars

\* a provider that is not the current one was removed; the current one stays
C5_Witness ==
    /\ last.op = "remove"
    /\ last.status = "ok"
    /\ config.current_provider \in DOMAIN config.providers
    /\ config.current_provider # last.name

\* C6: from every starting configuration, one loaded with no providers and a
\* current_provider included, remove_all leaves providers empty and
\* current_provider null, in memory and in the file.
C6_RemoveAllClearsEverything ==
    (last.op = "remove_all" /\ last.status = "ok")
        => /\ config = EmptyConfiguration
           /\ load(file).ok
           /\ load(file).config = EmptyConfiguration

\* C7: after every successful add, use, remove or remove_all the document in
\* the file is the in-memory Configuration: loading it gives the same providers
\* and the same current_provider.
C7_FileEqualsMemory ==
    (pc = "live" /\ last.op \in Mutations /\ last.status = "ok")
        => /\ load(file).ok
           /\ load(file).config = config

\* the current provider was removed and the file holds what is left
C7_Witness ==
    /\ pc = "live"
    /\ last.op = "remove"
    /\ last.status = "ok"
    /\ file.exists
    /\ config.current_provider = None
    /\ DOMAIN config.providers # {}

\* C8: a provider-management command that fails (exit status 1 or an uncaught
\* exception) leaves the file exactly as it was before the command.
C8_FailedCommandKeepsFile ==
    [][(pc = "live" /\ last'.op \in Mutations /\ last'.status # "ok")
          => file' = file]_vars

\* C9: save followed by load of the same path gives back the Configuration
\* that was saved, field for field, None fields included.
C9_SaveLoadRoundTrip ==
    [][(pc = "saved" /\ pc' = "loaded")
          => (last'.status = "ok" /\ config' = config)]_vars

\* a configuration with an entry under the empty name, with fields set and
\* fields None, was saved and loaded
C9_Witness ==
    /\ pc = "loaded"
    /\ last = Last("load", None, None, "ok")
    /\ "" \in DOMAIN config.providers
    /\ config.providers[""].org = ""
    /\ config.providers[""].server = None
    /\ config.current_provider = None

\* the schema of the configuration document: an object with no other keys than
\* providers and current_provider, every provider an object whose keys are
\* ProviderConfig fields, with a type that is one of the three backend types
ConformsToSchema(f) ==
    /\ f.kind = "object"
    /\ DOMAIN f.doc \subseteq {"providers", "current_provider"}
    /\ "providers" \in DOMAIN f.doc =>
          \A n \in DOMAIN f.doc.providers :
             /\ DOMAIN f.doc.providers[n] \subseteq Fields
             /\ "type" \in DOMAIN f.doc.providers[n]
             /\ f.doc.providers[n].type \in ProviderTypes

\* C10: load gives the empty default configuration when the file is absent and
\* raises, returning no Configuration, when the file is present and does not
\* conform to the schema.
C10_LoadRejectsNonConforming ==
    last.op = "start"
        => /\ ~file.exists => (last.status = "ok" /\ config = EmptyConfiguration)
           /\ (file.exists /\ ~ConformsToSchema(file)) => last.status = "raised"

(***************************************************************************)
(* C11: at the end of every provider-management command that saved, the    *)
(* mode of the configuration file is 0600, and the step that follows the   *)
(* write is the chmod to 0600, with nothing else of the command in between *)
(***************************************************************************)
C11_ModeAtEnd ==
    (pc \in {"live", "dead"} /\ last.op \in Mutations /\ last.status \in {"ok", "raised"})
        => file.exists /\ file.mode = "0600"

C11_ChmodFollowsWrite ==
    (pc = "written" /\ last'.status # "killed")
        => /\ file' = [file EXCEPT !.mode = "0600"]
           /\ UNCHANGED <<config, current_client, effects>>

C11_RestrictedAfterWrite == []C11_ModeAtEnd /\ [][C11_ChmodFollowsWrite]_vars

\* a first add has created the file, and it is owner-only
C11_Witness ==
    /\ pc = "live"
    /\ last = Last("add", "work", "bitwarden", "ok")
    /\ DOMAIN config.providers = {"work"}
    /\ file.mode = "0600"

(***************************************************************************)
(* C12: a process killed during save leaves the configuration file holding *)
(* a complete document, the previous one or the new one, never an empty or *)
(* a truncated file                                                        *)
(***************************************************************************)
C12_CrashKeepsWholeDocument ==
    last.status = "killed" => file.kind \notin {"empty", "partial"}

(***************************************************************************)
(* C13: an invocation whose configuration has no usable current provider   *)
(* (current_provider null, or a name that is no key of providers)          *)
(* constructs no adapter and its construction raises nothing; every        *)
(* provider-scoped command then exits with status 1 and calls no adapter   *)
(* operation                                                               *)
(***************************************************************************)
NoUsableCurrent(cfg) ==
    cfg.current_provider = None \/ cfg.current_provider \notin DOMAIN cfg.providers

C13_ConstructionWithoutProvider ==
    (last'.op = "start" /\ load(file).ok /\ NoUsableCurrent(load(file).config))
        => /\ last'.status = "ok"
           /\ current_client' = NoClient
           /\ ~effects'.built /\ effects'.calls = {}

C13_ScopedCommandRejected ==
    (last'.op \in ScopedCommands /\ load(file).ok /\ NoUsableCurrent(load(file).config))
        => /\ last'.status = "exit1"
           /\ current_client' = NoClient
           /\ ~effects'.built /\ effects'.calls = {} /\ ~effects'.wrote

C13_NoProviderNoAdapter ==
    [][C13_ConstructionWithoutProvider /\ C13_ScopedCommandRejected]_vars

\* the file names a provider that is not configured, next to one that is
C13_Witness ==
    /\ pc = "done"
    /\ last = Last("secret get", None, None, "exit1")
    /\ config.current_provider = "gone"
    /\ DOMAIN config.providers # {}
    /\ current_client = NoClient

(***************************************************************************)
(* C14: with a configuration file that loads, the provider-management      *)
(* commands stay available even when the adapter of the current provider   *)
(* fails to construct: the process comes up and the command runs           *)
(***************************************************************************)
C14_ManagementSurvivesAdapterFailure ==
    (last.op = "start" /\ load(file).ok) => last.status = "ok" /\ pc = "live"

(***************************************************************************)
(* C15: a command made for one backend, invoked while the adapter is of    *)
(* another class, exits with status 1, calls no adapter operation, leaves  *)
(* the content of the configuration file as it is and writes no file of    *)
(* the project directory                                                   *)
(***************************************************************************)
PassboltOnly ==
    {"passbolt list_folders", "passbolt get_or_create_folder", "project create",
     "project secret add", "project secret clean", "project secret restore"}

BitwardenOnly == {"set_access_token"}

C15_OtherBackend ==
    /\ current_client' # NoClient
    /\ \/ last'.op \in PassboltOnly /\ current_client'.cls # "PassboltClient"
       \/ last'.op \in BitwardenOnly /\ current_client'.cls # "BitwardenClient"

C15_Rejected ==
    C15_OtherBackend
        => /\ last'.status = "exit1"
           /\ effects'.calls \subseteq {"gcloud"}
           /\ ~effects'.wrote
           /\ file' = set_restrictive_permissions(file)

C15_ExclusiveCommandRejected == [][C15_Rejected]_vars

\* project create against a Bitwarden adapter
C15_Witness ==
    /\ pc = "done"
    /\ last = Last("project create", None, None, "exit1")
    /\ current_client.cls = "BitwardenClient"
    /\ effects.calls = {}

(***************************************************************************)
(* C16: after every successful use(name) the manager holds an adapter      *)
(* constructed by that use, of the class for the type of providers[name]   *)
(***************************************************************************)
AdapterClass(type) ==
    CASE type = "bitwarden" -> "BitwardenClient"
      [] type = "google" -> "GoogleSecretsManager"
      [] type = "passbolt" -> "PassboltClient"
      [] OTHER -> "None"

C16_UseBuildsAdapter ==
    [][(Ran("use") /\ last'.status = "ok")
          => /\ effects'.built
             /\ current_client'.cls = AdapterClass(config'.providers[last'.name].type)]_vars

(***************************************************************************)
(* C17: after a successful remove of the current provider the manager      *)
(* holds no adapter                                                        *)
(***************************************************************************)
C17_RemoveCurrentDropsAdapter ==
    [][(Ran("remove") /\ last'.status = "ok" /\ last'.name = config.current_provider)
          => current_client' = NoClient]_vars

(***************************************************************************)
(* C18: an invocation that adds a google provider to a configuration that  *)
(* holds one is rejected, and from its start to the rejection no adapter   *)
(* is constructed and no backend program is run                            *)
(***************************************************************************)
C18_SecondGoogleRejectedFirst ==
    [][(last.op = "start" /\ Ran("add") /\ last'.provider = "google"
            /\ GoogleProviders(config) # {})
          => /\ last'.status = "exit1"
             /\ ~effects'.inv_built
             /\ ~effects'.inv_calls]_vars

(***************************************************************************)
(* C19: in BitwardenClient.list_secrets and get_secret, with bws           *)
(* answering, a non-empty project reference that is the name of a listed   *)
(* project is replaced by the identifier of the first project of that      *)
(* name; one in the shape of an identifier goes to the secret query as it  *)
(* is; any other raises project-not-found and no secret query is issued    *)
(***************************************************************************)
SecretQueries == SelectSeq(outcome.queries, LAMBDA q : q.cmd = "secret list")

FirstNamed(t) ==
    backend.projects[CHOOSE i \in 1..Len(backend.projects) :
                        /\ backend.projects[i].name = t
                        /\ \A j \in 1..(i - 1) : backend.projects[j].name # t].id

IsListedName(t) == \E i \in 1..Len(backend.projects) : backend.projects[i].name = t

Hyphens(t) == Len(SelectSeq(t, LAMBDA c : c = "-"))

C19_Resolving ==
    /\ outcome.op \in {"list_secrets", "get_secret"}
    /\ backend.cls = "BitwardenClient"
    /\ outcome.reach
    /\ Truthy(outcome.ref)

C19_NotFound ==
    /\ outcome.result.kind = "raised"
    /\ outcome.result.error \in {"Project not found",
                                  "Failed to list secrets: Project not found"}
    /\ SecretQueries = <<>>

C19_ReferenceResolved ==
    C19_Resolving =>
        LET t == outcome.ref.text
        IN  IF IsListedName(t)
            THEN SecretQueries = <<Query("secret list", Ref(FirstNamed(t)))>>
            ELSE IF Hyphens(t) = 4
            THEN SecretQueries = <<Query("secret list", Ref(t))>>
            ELSE C19_NotFound

(***************************************************************************)
(* C20: for each of the three adapters, delete_secret of a name that       *)
(* list_secrets() does not list, with the backend answering, returns False *)
(* and leaves the secrets of the backend as they were                      *)
(***************************************************************************)
ListedNames(b) ==
    {IF b.cls = "BitwardenClient" THEN s.key ELSE s.name :
        s \in list_secrets(b, NoneRef, TRUE).result.value}

C20_DeleteOfAbsent ==
    (outcome'.op = "delete_secret" /\ outcome'.reach
        /\ outcome'.name \notin ListedNames(backend))
        => /\ outcome'.result = Ok(FALSE)
           /\ backend' = backend

C20_DeleteAbsentReturnsFalse == [][C20_DeleteOfAbsent]_vars

\* k2 is deleted from a Google project that holds only k1
C20_Witness ==
    /\ outcome.op = "delete_secret"
    /\ outcome.name = "k2"
    /\ outcome.reach
    /\ outcome.result = Ok(FALSE)
    /\ backend.cls = "GoogleSecretsManager"
    /\ DOMAIN backend.secrets = {"k1"}

(***************************************************************************)
(* C21: for every adapter and every operation of the contract, a backend   *)
(* call that fails ends the operation in an error: the operation raises,   *)
(* it returns no value, neither None from get_secret nor False from        *)
(* delete_secret                                                           *)
(***************************************************************************)
C21_BackendFailureRaises ==
    (outcome.op # "none" /\ ~outcome.reach) => outcome.result.kind = "raised"

(***************************************************************************)
(* C22: for every adapter, no summary that list_secrets returns holds the  *)
(* value of the secret                                                     *)
(***************************************************************************)
C22_SummariesWithoutValue ==
    (outcome.op = "list_secrets" /\ outcome.result.kind = "ok")
        => \A s \in outcome.result.value : "value" \notin DOMAIN s

(***************************************************************************)
(* C23: the adapter is constructed from the ProviderConfig of the current  *)
(* provider, and a current bitwarden provider whose org is null or differs *)
(* from the entry's name yields no working adapter                         *)
(***************************************************************************)
C23_AdapterFromProviderConfig ==
    (/\ pc \in {"live", "done"}
     /\ config.current_provider \in DOMAIN config.providers
     /\ config.providers[config.current_provider].type = "bitwarden")
        => IF config.providers[config.current_provider].org = config.current_provider
           THEN current_client.arg = config.providers[config.current_provider].org
           ELSE current_client = NoClient

(***************************************************************************)
(* C24: when two invocations run at once on the same file, each loading it *)
(* before the other saves, and both change the configuration with success, *)
(* the file after both have finished holds the configuration of the        *)
(* invocation that saved last, and nothing of the other's.                 *)
(***************************************************************************)
BothFinished ==
    /\ \A i \in Procs : race.procs[i].pc = "done" /\ race.procs[i].early
    /\ Len(race.saved) = 2

C24_LastWriteWins ==
    BothFinished
        => /\ file.kind = "object"
           /\ file.doc = SaveDocument(race.procs[race.saved[2]].config)


(***************************************************************************)
(* C25: BitwardenClient.store_secret leaves no temporary file behind,      *)
(* whether it succeeds, the lookup of the access token fails, or the       *)
(* backend command fails.                                                  *)
(***************************************************************************)
C25_NoTempFileLeft ==
    (outcome.op = "store_secret" /\ backend.cls = "BitwardenClient")
        => outcome.temp = {}

\* a store that raised: the lookup of the token failed, or bws did
C25_Witness ==
    /\ outcome.op = "store_secret"
    /\ backend.cls = "BitwardenClient"
    /\ outcome.result.kind = "raised"
    /\ outcome.queries = <<>>
    /\ outcome.temp = {}


(***************************************************************************)
(* C26: within one process, after any sequence of add, use, remove and     *)
(* remove_all, a live adapter exists only if the configuration has a       *)
(* current provider, and it is of the class for the type of                *)
(* providers[current_provider].                                            *)
(***************************************************************************)
C26_AdapterMatchesCurrent ==
    (pc = "live" /\ current_client # NoClient)
        => /\ config.current_provider \in DOMAIN config.providers
           /\ current_client.cls
                = AdapterClass(config.providers[config.current_provider].type)


(***************************************************************************)
(* C27: a successful add changes current_provider if and only if no        *)
(* current provider was set before: a current provider that is set stays,  *)
(* also when its own entry is replaced, and with none set the added name   *)
(* becomes current, also when other providers are configured.              *)
(***************************************************************************)
C27_AddSetsCurrentOnlyWhenUnset ==
    [][(Ran("add") /\ last'.status = "ok")
          => config'.current_provider
                = IF config.current_provider = None
                  THEN last'.name ELSE config.current_provider]_vars


(***************************************************************************)
(* C28: BitwardenClient.delete_secret(name) issues the delete to the       *)
(* backend and returns true for every name that list_secrets() shows,      *)
(* whatever value is stored under it, the empty value included.            *)
(***************************************************************************)
C28_Listed ==
    /\ backend.cls = "BitwardenClient"
    /\ outcome'.op = "delete_secret"
    /\ outcome'.reach
    /\ outcome'.name \in ListedNames(backend)

C28_DeleteOfListedSucceeds ==
    [][C28_Listed
          => /\ outcome'.result = Ok(TRUE)
             /\ \E i \in 1..Len(outcome'.queries) :
                    /\ outcome'.queries[i].cmd = "secret delete"
                    /\ outcome'.queries[i].arg = outcome'.name
             /\ outcome'.name \notin DOMAIN backend'.secrets]_vars


(***************************************************************************)
(* C29: when the backend already holds a secret with the name, project     *)
(* secret add without force issues no create and no update and leaves      *)
(* .nsm.yaml as it is; with force it updates the secret that exists, under *)
(* its identifier, and creates no second secret with the name.             *)
(***************************************************************************)
Issued(cmd) ==
    \E i \in 1..Len(project'.ran.calls) : project'.ran.calls[i].cmd = cmd

C29_Exists ==
    /\ require_provider(current_client) /\ current_client.cls = "PassboltClient"
    /\ ~Falsy(get_project_id_from_yaml(project.yaml))
    /\ ResourcesNamed(project.resources, project'.ran.file) # <<>>

C29_AddKeepsExistingSecret ==
    [][C29_Exists
          => /\ ~Issued("create resource")
             /\ Len(ResourcesNamed(project'.resources, project'.ran.file))
                    = Len(ResourcesNamed(project.resources, project'.ran.file))
             /\ ~project'.ran.force
                    => /\ ~Issued("update resource")
                       /\ project'.yaml = project.yaml
             /\ (project'.ran.force /\ project'.ran.status = "ok")
                    => /\ Issued("update resource")
                       /\ project'.yaml.secrets[project'.ran.file]
                            = ResourcesNamed(project.resources, project'.ran.file)[1].id]_vars


====
